---------------------------- MODULE Spec2Model ----------------------------
(***************************************************************************)
(* A model of the AFD simulator (afd_py_qt_6_simulator.py): the class AFD  *)
(* (validate, step_by_step, generate_accepted, to_dict, from_dict) and the *)
(* handlers of MainWindow that own the current definition self.afd.        *)
(*                                                                         *)
(* Data.  A state identifier is an atomic string ("q0").  A Python str     *)
(* that the code iterates, measures or concatenates (an input string, an   *)
(* alphabet symbol, a generated string) is a sequence of one-character     *)
(* strings: "01" is <<"0", "1">> and "" is <<>>.  A dict is the sequence   *)
(* of its <<key, value>> items in insertion order, with distinct keys; a   *)
(* set is a set; a list is a sequence.                                     *)
(***************************************************************************)
EXTENDS Integers, Sequences, FiniteSets, TLC

VARIABLES
    afd,            \* MainWindow.afd, or the AFD an operation is applied to
    initial_combo,  \* MainWindow.initial_combo: [items, current]
    lastValid,      \* history: the last definition on which validate returned
    op,             \* the handler or method that ran last
    usedAfd,        \* the definition the last evaluate/generate handler ran on
    input,          \* the input string of the step_by_step call, if one was made
    run,            \* the frame of the step_by_step call the last handler made
    gen,            \* the frame of the generate_accepted call it made
    valid,          \* the outcome of the last validate call
    record,         \* the dict handed to from_dict
    restored        \* the AFD from_dict returned

vars == <<afd, initial_combo, lastValid, op, usedAfd, input, run, gen, valid,
          record, restored>>

---------------------------------------------------------------------------
(* Bounds of the model *)

MaxRows == 2        \* rows of the transition table / items of a transitions dict
MaxInput == 3       \* characters of an input string
MaxN == 2           \* the parameter n of generate_accepted
MaxLen == 2         \* the parameter max_len of generate_accepted
HostRows == 1       \* rows of the transition table in the window
HostInput == 1      \* characters typed into the evaluation field

(* The universe the inputs are drawn from *)

None == "None"                              \* Python's None
Q == {"q0", "q1"}                           \* state identifiers
Chars == {"0", "1"}                         \* characters
Symbols == {<<"0">>, <<"1">>, <<"0", "1">>} \* the strings "0", "1" and "01"

Sym0 == <<"0">>
Sym1 == <<"1">>
Sym01 == <<"0", "1">>

\* alphabet lists: in both orders, with a repeated symbol, with the symbol "01"
Alphabets ==
    {<<>>, <<Sym0>>, <<Sym0, Sym1>>, <<Sym1, Sym0>>, <<Sym0, Sym0>>,
     <<Sym01>>, <<Sym01, Sym0>>, <<Sym1, Sym01>>}

\* one list for each set of symbols they hold
AlphabetSets == {<<>>, <<Sym0>>, <<Sym0, Sym1>>, <<Sym01>>, <<Sym1, Sym01>>}

\* lists of states, and rows <<src, sym, dst>> of a transition table
StateLists == {<<>>, <<"q0">>, <<"q1">>, <<"q0", "q1">>}
Rows == Q \X Symbols \X Q

SeqsUpTo(S, n) == UNION {[1..k -> S] : k \in 0..n}

Range(s) == {s[i] : i \in DOMAIN s}

\* the elements of a set as a sequence, in some fixed order
RECURSIVE SeqOfSet(_)
SeqOfSet(S) ==
    IF S = {} THEN <<>>
    ELSE LET x == CHOOSE x \in S : TRUE IN <<x>> \o SeqOfSet(S \ {x})

---------------------------------------------------------------------------
(* dict: items in insertion order *)

HasKey(d, k) == \E i \in DOMAIN d : d[i][1] = k

Get(d, k) == d[CHOOSE i \in DOMAIN d : d[i][1] = k][2]

\* d[k] = v: an existing key keeps its place, a new key goes last
Put(d, k, v) ==
    IF HasKey(d, k)
    THEN [i \in DOMAIN d |-> IF d[i][1] = k THEN <<k, v>> ELSE d[i]]
    ELSE Append(d, <<k, v>>)

\* Python truthiness of a str-or-None
Truthy(x) == x # None /\ x # ""

---------------------------------------------------------------------------
(* class AFD *)

\* AFD.__init__: states and accepting_states become sets, alphabet stays a list
AFD(states, alphabet, initial_state, accepting_states, transitions) ==
    [states |-> Range(states),
     alphabet |-> alphabet,
     initial_state |-> initial_state,
     accepting_states |-> Range(accepting_states),
     transitions |-> transitions]

\* AFD(): every argument defaulted
EmptyAFD == AFD(<<>>, <<>>, None, <<>>, <<>>)

\* ValidateMapping without the check of the destination state
RECURSIVE ValidateMapping_NoTarget(_, _, _)
ValidateMapping_NoTarget(D, mapping, j) ==
    IF j > Len(mapping) THEN "ok"
    ELSE IF mapping[j][1] \notin Range(D.alphabet) THEN "SymbolNotInAlphabet"
    ELSE ValidateMapping_NoTarget(D, mapping, j + 1)

\* ValidateMapping with the destination checked before the symbol
RECURSIVE ValidateMapping_TargetFirst(_, _, _)
ValidateMapping_TargetFirst(D, mapping, j) ==
    IF j > Len(mapping) THEN "ok"
    ELSE IF mapping[j][2] \notin D.states THEN "TransitionTargetUnknown"
    ELSE IF mapping[j][1] \notin Range(D.alphabet) THEN "SymbolNotInAlphabet"
    ELSE ValidateMapping_TargetFirst(D, mapping, j + 1)

\* the inner loop of validate over one mapping, from item j on
RECURSIVE ValidateMapping(_, _, _)
ValidateMapping(D, mapping, j) ==
    IF j > Len(mapping) THEN "ok"
    ELSE IF mapping[j][1] \notin Range(D.alphabet) THEN "SymbolNotInAlphabet"
    ELSE IF mapping[j][2] \notin D.states THEN "TransitionTargetUnknown"
    ELSE ValidateMapping(D, mapping, j + 1)

\* the outer loop of validate over transitions.items(), from item i on
RECURSIVE ValidateTransitions(_, _)
ValidateTransitions(D, i) ==
    IF i > Len(D.transitions) THEN "ok"
    ELSE IF D.transitions[i][1] \notin D.states THEN "TransitionSourceUnknown"
    ELSE LET r == ValidateMapping(D, D.transitions[i][2], 1)
         IN IF r # "ok" THEN r ELSE ValidateTransitions(D, i + 1)

\* AFD.validate: "ok" when it returns, else the kind of the ValueError raised
validate(D) ==
    IF Truthy(D.initial_state) /\ D.initial_state \notin D.states
    THEN "InitialStateNotInStates"
    ELSE IF ~(D.accepting_states \subseteq D.states)
    THEN "AcceptingStatesNotSubset"
    ELSE ValidateTransitions(D, 1)

---------------------------------------------------------------------------
(* AFD.step_by_step.  The frame: pc is the loop the call is in ("precheck",   *)
(* "loop") or how it ended ("returned", "raised"); k is the 1-based position  *)
(* of the loop; cur and trace are the locals (None and <<>> until line 242    *)
(* assigns them); accepted is the second component of the returned pair.      *)

\* the 1-character str at position k of w
Ch(w, k) == <<w[k]>>

\* the frame on entry to step_by_step
RunStart ==
    [pc |-> "precheck", k |-> 1, cur |-> None, trace |-> <<>>, accepted |-> FALSE]

\* RunPrecheck without the check: the simulation loop is entered at once
RunPrecheck_None(D, w, f) ==
    [f EXCEPT !.pc = "loop", !.k = 1, !.cur = D.initial_state, !.trace = <<>>]

\* one iteration of the loop at lines 238-240; its exit runs lines 242-243
RunPrecheck(D, w, f) ==
    IF f.k > Len(w)
    THEN [f EXCEPT !.pc = "loop", !.k = 1, !.cur = D.initial_state, !.trace = <<>>]
    ELSE IF Ch(w, f.k) \notin Range(D.alphabet)
    THEN [f EXCEPT !.pc = "raised"]
    ELSE [f EXCEPT !.k = f.k + 1]

\* the condition of line 247: no transition from cur on ch
NoTransition(D, cur, ch) ==
    ~HasKey(D.transitions, cur) \/ ~HasKey(Get(D.transitions, cur), ch)

\* RunLoop deciding acceptance on the initial state instead of the final one
RunLoop_InitialAccept(D, w, f) ==
    IF f.k > Len(w)
    THEN [f EXCEPT !.pc = "returned",
                   !.accepted = (D.initial_state \in D.accepting_states)]
    ELSE IF NoTransition(D, f.cur, Ch(w, f.k))
    THEN [f EXCEPT !.pc = "returned", !.accepted = FALSE,
                   !.trace = Append(f.trace, <<f.k, f.cur, Ch(w, f.k), None>>)]
    ELSE LET nxt == Get(Get(D.transitions, f.cur), Ch(w, f.k))
         IN [f EXCEPT !.k = f.k + 1, !.cur = nxt,
                      !.trace = Append(f.trace, <<f.k, f.cur, Ch(w, f.k), nxt>>)]

\* RunLoop deciding acceptance on the stalled state at a missing transition
RunLoop_StallAccepts(D, w, f) ==
    IF f.k > Len(w)
    THEN [f EXCEPT !.pc = "returned", !.accepted = (f.cur \in D.accepting_states)]
    ELSE IF NoTransition(D, f.cur, Ch(w, f.k))
    THEN [f EXCEPT !.pc = "returned", !.accepted = (f.cur \in D.accepting_states),
                   !.trace = Append(f.trace, <<f.k, f.cur, Ch(w, f.k), None>>)]
    ELSE LET nxt == Get(Get(D.transitions, f.cur), Ch(w, f.k))
         IN [f EXCEPT !.k = f.k + 1, !.cur = nxt,
                      !.trace = Append(f.trace, <<f.k, f.cur, Ch(w, f.k), nxt>>)]

\* RunLoop recording each step but staying in the state it was in
RunLoop_NoAdvance(D, w, f) ==
    IF f.k > Len(w)
    THEN [f EXCEPT !.pc = "returned", !.accepted = (f.cur \in D.accepting_states)]
    ELSE IF NoTransition(D, f.cur, Ch(w, f.k))
    THEN [f EXCEPT !.pc = "returned", !.accepted = FALSE,
                   !.trace = Append(f.trace, <<f.k, f.cur, Ch(w, f.k), None>>)]
    ELSE LET nxt == Get(Get(D.transitions, f.cur), Ch(w, f.k))
         IN [f EXCEPT !.k = f.k + 1,
                      !.trace = Append(f.trace, <<f.k, f.cur, Ch(w, f.k), nxt>>)]

\* one iteration of the loop at lines 245-253; its exit runs lines 256-257
RunLoop(D, w, f) ==
    IF f.k > Len(w)
    THEN [f EXCEPT !.pc = "returned", !.accepted = (f.cur \in D.accepting_states)]
    ELSE IF NoTransition(D, f.cur, Ch(w, f.k))
    THEN [f EXCEPT !.pc = "returned", !.accepted = FALSE,
                   !.trace = Append(f.trace, <<f.k, f.cur, Ch(w, f.k), None>>)]
    ELSE LET nxt == Get(Get(D.transitions, f.cur), Ch(w, f.k))
         IN [f EXCEPT !.k = f.k + 1, !.cur = nxt,
                      !.trace = Append(f.trace, <<f.k, f.cur, Ch(w, f.k), nxt>>)]

RunStep(D, w, f) ==
    IF f.pc = "precheck" THEN RunPrecheck(D, w, f)
    ELSE IF f.pc = "loop" THEN RunLoop(D, w, f)
    ELSE f

RunDone(f) == f.pc \in {"returned", "raised"}

RECURSIVE RunFrom(_, _, _)
RunFrom(D, w, f) == IF RunDone(f) THEN f ELSE RunFrom(D, w, RunStep(D, w, f))

\* the whole call: the final frame
step_by_step(D, w) == RunFrom(D, w, RunStart)

---------------------------------------------------------------------------
(* AFD.generate_accepted.  The frame: n and max_len are the parameters;     *)
(* results, queue and visited are the locals of lines 274-276; state and s  *)
(* are the configuration dequeued last; branch names the way the last       *)
(* iteration left the loop body.                                            *)

\* the frame after lines 274-276
GenStart(D, n, max_len) ==
    [pc |-> "loop", n |-> n, max_len |-> max_len,
     results |-> <<>>,
     queue |-> << <<D.initial_state, <<>>>> >>,
     visited |-> {},
     state |-> None, s |-> <<>>, branch |-> "start"]

\* lines 297-299: the configurations appended for the symbols alphabet[1..i]
RECURSIVE Expand(_, _, _, _)
Expand(D, state, s, i) ==
    IF i = 0 THEN <<>>
    ELSE LET symbol == D.alphabet[i]
             before == Expand(D, state, s, i - 1)
         IN IF HasKey(D.transitions, state) /\ HasKey(Get(D.transitions, state), symbol)
            THEN Append(before, <<Get(Get(D.transitions, state), symbol), s \o symbol>>)
            ELSE before

\* GenStep reading the head of the queue and removing it only once the
\* configuration is known to be new
GenStep_DequeueAfterVisitedTest(D, f) ==
    IF ~(f.queue # <<>> /\ Len(f.results) < f.n)
    THEN [f EXCEPT !.pc = "returned", !.branch = "exit"]
    ELSE
    LET state == Head(f.queue)[1]
        s == Head(f.queue)[2]
    IN  IF <<state, s>> \in f.visited
        THEN [f EXCEPT !.state = state, !.s = s, !.branch = "skip"]
        ELSE
        LET record_it == state \in D.accepting_states /\ s \notin Range(f.results)
            f2 == [f EXCEPT !.queue = Tail(f.queue), !.state = state, !.s = s,
                            !.visited = f.visited \cup {<<state, s>>},
                            !.results = IF record_it THEN Append(f.results, s)
                                        ELSE f.results]
        IN  IF record_it /\ Len(f2.results) >= f.n
            THEN [f2 EXCEPT !.pc = "returned", !.branch = "break"]
            ELSE IF Len(s) >= f.max_len
            THEN [f2 EXCEPT !.branch = "cut"]
            ELSE [f2 EXCEPT !.branch = "expand",
                            !.queue = f2.queue \o Expand(D, state, s, Len(D.alphabet))]

\* one test of the while condition (line 278) and, if it holds, one iteration
GenStep(D, f) ==
    IF ~(f.queue # <<>> /\ Len(f.results) < f.n)
    THEN [f EXCEPT !.pc = "returned", !.branch = "exit"]
    ELSE
    LET state == Head(f.queue)[1]
        s == Head(f.queue)[2]
        f1 == [f EXCEPT !.queue = Tail(f.queue), !.state = state, !.s = s]
    IN  IF <<state, s>> \in f.visited
        THEN [f1 EXCEPT !.branch = "skip"]
        ELSE
        LET record_it == state \in D.accepting_states /\ s \notin Range(f.results)
            f2 == [f1 EXCEPT !.visited = f.visited \cup {<<state, s>>},
                             !.results = IF record_it THEN Append(f.results, s)
                                         ELSE f.results]
        IN  IF record_it /\ Len(f2.results) >= f.n
            THEN [f2 EXCEPT !.pc = "returned", !.branch = "break"]
            ELSE IF Len(s) >= f.max_len
            THEN [f2 EXCEPT !.branch = "cut"]
            ELSE [f2 EXCEPT !.branch = "expand",
                            !.queue = f2.queue \o Expand(D, state, s, Len(D.alphabet))]

RECURSIVE GenFrom(_, _)
GenFrom(D, f) == IF f.pc = "returned" THEN f ELSE GenFrom(D, GenStep(D, f))

\* the whole call: the final frame, whose results field is the returned list
generate_accepted(D, n, max_len) == GenFrom(D, GenStart(D, n, max_len))

---------------------------------------------------------------------------
(* AFD.to_dict and AFD.from_dict *)

\* list(a_set): the elements in some order, each once
ListsOf(S) == {l \in [1..Cardinality(S) -> S] : Range(l) = S}

\* the dicts to_dict may return: list() fixes no order for the two sets
to_dict(D) ==
    {[states |-> sl, alphabet |-> D.alphabet, initial_state |-> D.initial_state,
      accepting_states |-> al, transitions |-> D.transitions]
        : sl \in ListsOf(D.states), al \in ListsOf(D.accepting_states)}

\* d.get(key, default) on a dict given as a record
DictGet(d, key, default) == IF key \in DOMAIN d THEN d[key] ELSE default

\* from_dict building the alphabet from the set of its symbols
from_dict_AlphabetAsSet(d) ==
    AFD(DictGet(d, "states", <<>>), SeqOfSet(Range(DictGet(d, "alphabet", <<>>))),
        DictGet(d, "initial_state", None), DictGet(d, "accepting_states", <<>>),
        DictGet(d, "transitions", <<>>))

from_dict(d) ==
    AFD(DictGet(d, "states", <<>>), DictGet(d, "alphabet", <<>>),
        DictGet(d, "initial_state", None), DictGet(d, "accepting_states", <<>>),
        DictGet(d, "transitions", <<>>))

---------------------------------------------------------------------------
(* EXAMPLES: the built-in definitions *)

EXAMPLES ==
    [parity |->
        [states |-> <<"q0", "q1">>, alphabet |-> <<Sym0, Sym1>>,
         initial_state |-> "q0", accepting_states |-> <<"q0">>,
         transitions |-> << <<"q0", << <<Sym0, "q0">>, <<Sym1, "q1">> >> >>,
                            <<"q1", << <<Sym0, "q1">>, <<Sym1, "q0">> >> >> >>],
     ends01 |->
        [states |-> <<"q0", "q1", "q2">>, alphabet |-> <<Sym0, Sym1>>,
         initial_state |-> "q0", accepting_states |-> <<"q2">>,
         transitions |-> << <<"q0", << <<Sym0, "q1">>, <<Sym1, "q0">> >> >>,
                            <<"q1", << <<Sym0, "q1">>, <<Sym1, "q2">> >> >>,
                            <<"q2", << <<Sym0, "q1">>, <<Sym1, "q0">> >> >> >>],
     zeros |->
        [states |-> <<"q0", "q1">>, alphabet |-> <<Sym0, Sym1>>,
         initial_state |-> "q0", accepting_states |-> <<"q0">>,
         transitions |-> << <<"q0", << <<Sym0, "q0">>, <<Sym1, "q1">> >> >>,
                            <<"q1", << <<Sym0, "q1">>, <<Sym1, "q1">> >> >> >>],
     atleastone1 |->
        [states |-> <<"q0", "q1">>, alphabet |-> <<Sym0, Sym1>>,
         initial_state |-> "q0", accepting_states |-> <<"q1">>,
         transitions |-> << <<"q0", << <<Sym0, "q0">>, <<Sym1, "q1">> >> >>,
                            <<"q1", << <<Sym0, "q1">>, <<Sym1, "q1">> >> >> >>]]

ExampleNames == DOMAIN EXAMPLES

\* the AFD a record of EXAMPLES stands for
ExampleAFD(name) == from_dict(EXAMPLES[name])

---------------------------------------------------------------------------
(* MainWindow.  The text fields and the transition table are read by       *)
(* apply_definition only, so their contents are its inputs: the lists the  *)
(* comprehensions of lines 537-540 yield and the complete rows of the      *)
(* table as <<src, sym, dst>>.  The combo box is state: apply_definition   *)
(* reads its current text and refills it.                                  *)

\* lines 556-559: transitions[src][sym] = dst, creating transitions[src] first
AddRow(t, row) ==
    LET t1 == IF HasKey(t, row[1]) THEN t ELSE Append(t, <<row[1], <<>>>>)
    IN Put(t1, row[1], Put(Get(t1, row[1]), row[2], row[3]))

\* lines 543-559: the dict built from the rows, a repeated (src, sym) overwritten
RECURSIVE BuildTransitions(_)
BuildTransitions(rows) ==
    IF rows = <<>> THEN <<>>
    ELSE AddRow(BuildTransitions(SubSeq(rows, 1, Len(rows) - 1)), rows[Len(rows)])

\* QComboBox after clear() and addItem of each state, then setCurrentIndex of
\* wanted if it is one of them: the first item is current otherwise, "" if none
Refill(states, wanted) ==
    [items |-> states,
     current |-> IF Truthy(wanted) /\ wanted \in Range(states) THEN wanted
                 ELSE IF states = <<>> THEN "" ELSE states[1]]

\* lines 562-572: the combo box and the AFD apply_definition constructs
Constructed(states, alphabet, accepting_states, rows, combo) ==
    LET initial_state == IF Len(combo.items) > 0 THEN combo.current ELSE None
        after == Refill(states, initial_state)
    IN [combo |-> after,
        afd |-> AFD(states, alphabet, after.current, accepting_states,
                    BuildTransitions(rows))]

\* the guard of evaluate_input, generate_strings and save_afd
Defined(D) == D.states # {}

\* the arguments of the call at line 619
GenN == 10
GenMaxLen == 20

RunIdle == [pc |-> "idle", k |-> 0, cur |-> None, trace |-> <<>>, accepted |-> FALSE]
GenIdle == [pc |-> "idle", n |-> 0, max_len |-> 0, results |-> <<>>, queue |-> <<>>,
            visited |-> {}, state |-> None, s |-> <<>>, branch |-> "idle"]

\* the inputs of the window
StatesInputs == {<<>>, <<"q0">>, <<"q0", "q1">>}
AlphaInputs == {<<Sym0>>, <<Sym0, Sym1>>}
AcceptInputs == {<<>>, <<"q1">>}
RowInputs == {"q0"} \X {Sym0, Sym1} \X Q

Init ==
    /\ afd = EmptyAFD
    /\ initial_combo = [items |-> <<>>, current |-> ""]
    /\ lastValid = EmptyAFD
    /\ op = "init"
    /\ usedAfd = <<>>
    /\ input = <<>>
    /\ run = RunIdle
    /\ gen = GenIdle
    /\ valid = "none"
    /\ record = <<>>
    /\ restored = <<>>

\* the handler made no call of step_by_step or generate_accepted
NoCall == input' = <<>> /\ run' = RunIdle /\ gen' = GenIdle

\* the user picks item i of the combo box
select_initial(i) ==
    /\ i \in DOMAIN initial_combo.items
    /\ initial_combo' = [initial_combo EXCEPT !.current = initial_combo.items[i]]
    /\ op' = "select_initial"
    /\ usedAfd' = <<>>
    /\ NoCall
    /\ UNCHANGED <<afd, lastValid, valid, record, restored>>

\* lines 535-576 on the given field contents and combo box
Applied(states, alphabet, accepting_states, rows, combo) ==
    LET c == Constructed(states, alphabet, accepting_states, rows, combo)
    IN /\ initial_combo' = c.combo
       /\ afd' = c.afd
       /\ valid' = validate(c.afd)
       /\ lastValid' = IF validate(c.afd) = "ok" THEN c.afd ELSE lastValid
       /\ usedAfd' = <<>>
       /\ NoCall
       /\ UNCHANGED <<record, restored>>

apply_definition(states, alphabet, accepting_states, rows) ==
    /\ Applied(states, alphabet, accepting_states, rows, initial_combo)
    /\ op' = "apply_definition"

\* the rows populate_definition_from_dict puts in the table (lines 519-525)
RECURSIVE RowsOf(_)
RowsOf(transitions) ==
    IF transitions = <<>> THEN <<>>
    ELSE LET src == Head(transitions)[1]
             mapping == Head(transitions)[2]
         IN [j \in DOMAIN mapping |-> <<src, mapping[j][1], mapping[j][2]>>]
            \o RowsOf(Tail(transitions))

\* load_afd on a file holding the record of an example: populate the fields
\* (lines 506-525), then apply_definition
load_afd(name) ==
    LET d == EXAMPLES[name]
    IN /\ Applied(d.states, d.alphabet, d.accepting_states, RowsOf(d.transitions),
                  Refill(d.states, d.initial_state))
       /\ op' = "load_afd"

evaluate_input(w) ==
    /\ op' = "evaluate_input"
    /\ IF ~Defined(afd)
       THEN /\ usedAfd' = <<>>
            /\ NoCall
       ELSE /\ usedAfd' = <<afd>>
            /\ input' = w
            /\ run' = step_by_step(afd, w)
            /\ gen' = GenIdle
    /\ UNCHANGED <<afd, initial_combo, lastValid, valid, record, restored>>

generate_strings ==
    /\ op' = "generate_strings"
    /\ IF ~Defined(afd)
       THEN /\ usedAfd' = <<>>
            /\ NoCall
       ELSE /\ usedAfd' = <<afd>>
            /\ gen' = generate_accepted(afd, GenN, GenMaxLen)
            /\ input' = <<>>
            /\ run' = RunIdle
    /\ UNCHANGED <<afd, initial_combo, lastValid, valid, record, restored>>

Next ==
    \/ \E i \in 1..2 : select_initial(i)
    \/ \E states \in StatesInputs, alphabet \in AlphaInputs,
          accepting_states \in AcceptInputs, rows \in SeqsUpTo(RowInputs, HostRows) :
            apply_definition(states, alphabet, accepting_states, rows)
    \/ \E name \in ExampleNames : load_afd(name)
    \/ \E w \in SeqsUpTo(Chars, HostInput) : evaluate_input(w)
    \/ generate_strings

Spec == Init /\ [][Next]_vars

\* C1: a definition that fails validate never becomes the window's definition:
\* self.afd is always the definition in effect (the initial AFD() or the last
\* one on which validate returned), and evaluate_input / generate_strings
\* only ever run on that definition.
C1_RejectedDefinitionNotInEffect ==
    (op \in {"evaluate_input", "generate_strings"} /\ usedAfd # <<>>)
        => (afd = lastValid /\ usedAfd = <<lastValid>>)

---------------------------------------------------------------------------
(* validate applied to the definitions of a bounded family *)

ValidateFamily ==
    {AFD(st, al, ini, acc, BuildTransitions(rows)) :
        st \in StateLists, al \in AlphabetSets, ini \in Q \cup {None, ""},
        acc \in StateLists, rows \in SeqsUpTo(Rows, MaxRows)}

\* every variable but afd in its initial state
Fresh ==
    /\ initial_combo = [items |-> <<>>, current |-> ""]
    /\ lastValid = EmptyAFD
    /\ op = "init"
    /\ usedAfd = <<>>
    /\ input = <<>>
    /\ run = RunIdle
    /\ gen = GenIdle
    /\ valid = "none"
    /\ record = <<>>
    /\ restored = <<>>

InitValidate == afd \in ValidateFamily /\ Fresh

CallValidate ==
    /\ op = "init"
    /\ op' = "validate"
    /\ valid' = validate(afd)
    /\ UNCHANGED <<afd, initial_combo, lastValid, usedAfd, input, run, gen,
                   record, restored>>

SpecValidate == InitValidate /\ [][CallValidate]_vars

\* the five structural invariants of a definition
InitialInStates(D) == ~Truthy(D.initial_state) \/ D.initial_state \in D.states
AcceptingSubset(D) == D.accepting_states \subseteq D.states
SourcesKnown(D) == \A i \in DOMAIN D.transitions : D.transitions[i][1] \in D.states
SymbolsKnown(D) ==
    \A i \in DOMAIN D.transitions : \A j \in DOMAIN D.transitions[i][2] :
        D.transitions[i][2][j][1] \in Range(D.alphabet)
TargetsKnown(D) ==
    \A i \in DOMAIN D.transitions : \A j \in DOMAIN D.transitions[i][2] :
        D.transitions[i][2][j][2] \in D.states

\* the numbers of the checks a definition violates, and the error of a check
Violated(D) ==
    {c \in 1..5 :
        \/ c = 1 /\ ~InitialInStates(D)
        \/ c = 2 /\ ~AcceptingSubset(D)
        \/ c = 3 /\ ~SourcesKnown(D)
        \/ c = 4 /\ ~SymbolsKnown(D)
        \/ c = 5 /\ ~TargetsKnown(D)}

ErrorOf(c) ==
    CASE c = 1 -> "InitialStateNotInStates"
      [] c = 2 -> "AcceptingStatesNotSubset"
      [] c = 3 -> "TransitionSourceUnknown"
      [] c = 4 -> "SymbolNotInAlphabet"
      [] c = 5 -> "TransitionTargetUnknown"

Lowest(S) == CHOOSE c \in S : \A d \in S : c <= d

\* C2: validate succeeds if and only if the five structural invariants hold;
\* a definition that breaks exactly one of them gets the error of that one;
\* the empty definition (no states, no initial state) passes.
C2_ValidateIffInvariants ==
    op = "validate" =>
        /\ valid = "ok" <=> Violated(afd) = {}
        /\ \A c \in 1..5 : Violated(afd) = {c} => valid = ErrorOf(c)
        /\ (afd.states = {} /\ ~Truthy(afd.initial_state) /\ afd.accepting_states = {}
            /\ afd.transitions = <<>>) => valid = "ok"

\* validate has rejected a definition whose only fault is a transition to a
\* state outside states
C2_Witness ==
    op = "validate" /\ Violated(afd) = {5} /\ valid = "TransitionTargetUnknown"

\* C3 as stated: with several checks violated, the error is that of the
\* lowest-numbered violated check, wherever in the table the violations are.
C3_LowestCheckReported ==
    (op = "validate" /\ Violated(afd) # {}) => valid = ErrorOf(Lowest(Violated(afd)))

\* the violations in the transition table, as <<item, entry, check>>: entry 0
\* of an item is its source state
Offences(D) ==
    LET t == D.transitions
    IN {<<i, 0, 3>> : i \in {i \in DOMAIN t : t[i][1] \notin D.states}}
       \cup {<<o[1], o[2], 4>> :
               o \in {o \in UNION {{<<i, j>> : j \in DOMAIN t[i][2]} : i \in DOMAIN t} :
                        t[o[1]][2][o[2]][1] \notin Range(D.alphabet)}}
       \cup {<<o[1], o[2], 5>> :
               o \in {o \in UNION {{<<i, j>> : j \in DOMAIN t[i][2]} : i \in DOMAIN t} :
                        t[o[1]][2][o[2]][2] \notin D.states}}

Before(a, b) ==
    \/ a[1] < b[1]
    \/ a[1] = b[1] /\ a[2] < b[2]
    \/ a[1] = b[1] /\ a[2] = b[2] /\ a[3] <= b[3]

FirstOffence(D) == CHOOSE a \in Offences(D) : \A b \in Offences(D) : Before(a, b)

\* C3 as amended: check 1 is reported before check 2 and both before the
\* checks of the table; among those, the error is that of the first violation
\* met when the table is read item by item, the source of an item before its
\* entries and the symbol of an entry before its destination.
C3_FirstOffenceReported ==
    (op = "validate" /\ Violated(afd) # {}) =>
        valid = IF Lowest(Violated(afd)) <= 2 THEN ErrorOf(Lowest(Violated(afd)))
                ELSE ErrorOf(FirstOffence(afd)[3])

\* validate has reported an unknown destination for a table that also has an
\* unknown source in a later item
C3_Witness ==
    /\ op = "validate"
    /\ valid = "TransitionTargetUnknown"
    /\ 3 \in Violated(afd)

---------------------------------------------------------------------------
(* step_by_step applied to the definitions of a bounded family and to the  *)
(* built-in examples, one loop iteration at a time                         *)

\* the transition dicts with at most n items over the rows R
Tables(R, n) ==
    {BuildTransitions(SeqOfSet(S)) : S \in {S \in SUBSET R : Cardinality(S) <= n}}

RunRows == Q \X {Sym0, Sym1} \X Q

RunFamily ==
    {AFD(<<"q0", "q1">>, al, ini, acc, tr) :
        al \in AlphabetSets, ini \in {None, "q0"}, acc \in StateLists,
        tr \in Tables(RunRows, MaxRows)}

InitRun ==
    /\ \/ afd \in RunFamily /\ input \in SeqsUpTo(Chars, MaxInput)
       \/ afd \in {ExampleAFD(name) : name \in ExampleNames}
            /\ input \in SeqsUpTo(Chars, MaxInput + 1)
    /\ initial_combo = [items |-> <<>>, current |-> ""]
    /\ lastValid = EmptyAFD
    /\ op = "init"
    /\ usedAfd = <<>>
    /\ run = RunStart
    /\ gen = GenIdle
    /\ valid = "none"
    /\ record = <<>>
    /\ restored = <<>>

\* one iteration of the alphabet check
Precheck ==
    /\ run.pc = "precheck"
    /\ run' = RunPrecheck(afd, input, run)
    /\ op' = "step_by_step"
    /\ UNCHANGED <<afd, initial_combo, lastValid, usedAfd, input, gen, valid,
                   record, restored>>

\* one iteration of the simulation loop
Simulate ==
    /\ run.pc = "loop"
    /\ run' = RunLoop(afd, input, run)
    /\ op' = "step_by_step"
    /\ UNCHANGED <<afd, initial_combo, lastValid, usedAfd, input, gen, valid,
                   record, restored>>

NextRun == Precheck \/ Simulate

SpecRun == InitRun /\ [][NextRun]_vars

\* the input has a character that is no symbol of the alphabet
OutsideAlphabet(D, w) == \E i \in DOMAIN w : Ch(w, i) \notin Range(D.alphabet)

\* the transition function: the destination of (q, ch), or Undefined
Undefined == "undefined"
Delta(D, q, ch) ==
    IF \E i \in DOMAIN D.transitions :
          D.transitions[i][1] = q /\ \E j \in DOMAIN D.transitions[i][2] :
                                        D.transitions[i][2][j][1] = ch
    THEN LET i == CHOOSE i \in DOMAIN D.transitions : D.transitions[i][1] = q
             m == D.transitions[i][2]
         IN m[CHOOSE j \in DOMAIN m : m[j][1] = ch][2]
    ELSE Undefined

\* the state reached from initial_state on w, or Undefined
RECURSIVE DeltaStar(_, _)
DeltaStar(D, w) ==
    IF w = <<>> THEN D.initial_state
    ELSE LET q == DeltaStar(D, SubSeq(w, 1, Len(w) - 1))
         IN IF q = Undefined THEN Undefined ELSE Delta(D, q, Ch(w, Len(w)))

\* C4: step_by_step raises exactly when the input has a character outside
\* the alphabet, and then before the simulation loop is entered: no
\* transition is taken and no trace exists, whatever precedes the character.
C4_RaisesIffOutsideAlphabet ==
    /\ OutsideAlphabet(afd, input) =>
          run.pc \in {"precheck", "raised"} /\ run.trace = <<>> /\ run.cur = None
    /\ RunDone(run) => (run.pc = "raised" <=> OutsideAlphabet(afd, input))

\* the call has raised on an input whose first character has a transition
\* from the initial state and whose second character is outside the alphabet
C4_Witness ==
    /\ run.pc = "raised"
    /\ Len(input) >= 2
    /\ Ch(input, 1) \in Range(afd.alphabet)
    /\ Delta(afd, afd.initial_state, Ch(input, 1)) # Undefined
    /\ Ch(input, 2) \notin Range(afd.alphabet)

\* C5: on an input over the alphabet along which every transition is defined
\* the call returns a trace of len(input) steps and accepted tells whether
\* the state reached is accepting; on the empty input the trace is empty and
\* accepted tells whether initial_state is accepting; the parity example
\* accepts "1100" and rejects "111".
C5_AcceptsIffFinalStateAccepting ==
    RunDone(run) =>
        /\ (~OutsideAlphabet(afd, input) /\ DeltaStar(afd, input) # Undefined) =>
              /\ run.pc = "returned"
              /\ Len(run.trace) = Len(input)
              /\ run.accepted = (DeltaStar(afd, input) \in afd.accepting_states)
        /\ input = <<>> =>
              /\ run.pc = "returned"
              /\ run.trace = <<>>
              /\ run.accepted = (afd.initial_state \in afd.accepting_states)
        /\ (afd = ExampleAFD("parity") /\ input = <<"1", "1", "0", "0">>) =>
              run.pc = "returned" /\ run.accepted
        /\ (afd = ExampleAFD("parity") /\ input = <<"1", "1", "1">>) =>
              run.pc = "returned" /\ ~run.accepted

\* the call on the parity example and "1100" has returned
C5_Witness ==
    /\ afd = ExampleAFD("parity")
    /\ input = <<"1", "1", "0", "0">>
    /\ run.pc = "returned"
    /\ Len(run.trace) = 4
    /\ run.accepted

\* position k is the first at which the state reached has no transition
StallsAt(D, w, k) ==
    /\ k \in DOMAIN w
    /\ DeltaStar(D, SubSeq(w, 1, k - 1)) # Undefined
    /\ DeltaStar(D, SubSeq(w, 1, k)) = Undefined

\* C6: on an input over the alphabet whose first missing transition is at
\* position k the call returns, without error, a trace of exactly k steps
\* whose last step is (k, state, symbol, None) and whose earlier steps have a
\* destination, and accepted is false.
C6_StopsAtFirstMissingTransition ==
    \A k \in DOMAIN input :
        (RunDone(run) /\ ~OutsideAlphabet(afd, input) /\ StallsAt(afd, input, k)) =>
            /\ run.pc = "returned"
            /\ Len(run.trace) = k
            /\ run.trace[k] =
                 <<k, DeltaStar(afd, SubSeq(input, 1, k - 1)), Ch(input, k), None>>
            /\ \A i \in 1..(k - 1) : run.trace[i][4] # None
            /\ ~run.accepted

\* the call has returned after stalling at position 2 of a longer input, in
\* an accepting state
C6_Witness ==
    /\ run.pc = "returned"
    /\ ~OutsideAlphabet(afd, input)
    /\ Len(input) >= 3
    /\ StallsAt(afd, input, 2)
    /\ DeltaStar(afd, SubSeq(input, 1, 1)) \in afd.accepting_states
    /\ Len(run.trace) = 2

---------------------------------------------------------------------------
(* generate_accepted applied to the definitions of a bounded family and to *)
(* the built-in examples, one loop iteration at a time, and step_by_step   *)
(* applied to the strings it returned                                      *)

\* the symbol "00", which the string "0" + "0" also spells
Sym00 == <<"0", "0">>
GenAlphabets == Alphabets \cup {<<Sym0, Sym00>>}
GenRows == Rows \cup (Q \X {Sym00} \X Q)

GenFamily ==
    {AFD(<<"q0", "q1">>, al, ini, acc, tr) :
        al \in GenAlphabets, ini \in {None, "q0"}, acc \in StateLists,
        tr \in Tables(GenRows, MaxRows)}

InitGen ==
    /\ \/ /\ afd \in GenFamily
          /\ \E n \in 0..MaxN, max_len \in 0..MaxLen : gen = GenStart(afd, n, max_len)
       \/ /\ afd \in {ExampleAFD(name) : name \in ExampleNames}
          /\ \E n \in 0..(MaxN + 1), max_len \in 0..(MaxLen + 1) :
                gen = GenStart(afd, n, max_len)
    /\ initial_combo = [items |-> <<>>, current |-> ""]
    /\ lastValid = EmptyAFD
    /\ op = "init"
    /\ usedAfd = <<>>
    /\ input = <<>>
    /\ run = RunIdle
    /\ valid = "none"
    /\ record = <<>>
    /\ restored = <<>>

\* one test of the while condition and one iteration of the search
Iterate ==
    /\ gen.pc = "loop"
    /\ gen' = GenStep(afd, gen)
    /\ op' = "generate_accepted"
    /\ UNCHANGED <<afd, initial_combo, lastValid, usedAfd, input, run, valid,
                   record, restored>>

\* step_by_step on the i-th string generate_accepted returned
RunOnResult(i) ==
    /\ gen.pc = "returned"
    /\ op = "generate_accepted"
    /\ i \in DOMAIN gen.results
    /\ input' = gen.results[i]
    /\ run' = step_by_step(afd, gen.results[i])
    /\ op' = "step_by_step"
    /\ UNCHANGED <<afd, initial_combo, lastValid, usedAfd, gen, valid, record, restored>>

NextGen == Iterate \/ \E i \in 1..(MaxN + 1) : RunOnResult(i)

SpecGen == InitGen /\ [][NextGen]_vars

\* C7: step_by_step on a string generate_accepted returned, for the same
\* definition, raises no error and accepts.
C7_GeneratedStringsAccepted ==
    (gen.pc = "returned" /\ op = "step_by_step") =>
        run.pc = "returned" /\ run.accepted

\* C8: at every point of the search there are at most n results, no result
\* is longer than max_len and no queued configuration holds a string longer
\* than max_len.
C8_ResultsWithinBounds ==
    gen.pc \in {"loop", "returned"} =>
        /\ Len(gen.results) <= gen.n
        /\ \A i \in DOMAIN gen.results : Len(gen.results[i]) <= gen.max_len
        /\ \A i \in DOMAIN gen.queue : Len(gen.queue[i][2]) <= gen.max_len

\* C9: for a valid definition no result is shorter than one before it.
C9_LengthsNonDecreasing ==
    (gen.pc \in {"loop", "returned"} /\ validate(afd) = "ok") =>
        \A i, j \in DOMAIN gen.results :
            i < j => Len(gen.results[i]) <= Len(gen.results[j])

\* every symbol of the alphabet is one character long
SingleCharacters(D) == \A i \in DOMAIN D.alphabet : Len(D.alphabet[i]) = 1

---------------------------------------------------------------------------
(* to_dict and from_dict applied to the definitions of a bounded family,   *)
(* valid or not, and from_dict applied to a record with a key missing      *)

DictFamily ==
    {AFD(st, al, ini, acc, tr) :
        st \in StateLists, al \in Alphabets, ini \in {None, "", "q0"},
        acc \in StateLists, tr \in Tables(RunRows, MaxRows)}

Keys == {"states", "alphabet", "initial_state", "accepting_states", "transitions"}

InitDict == afd \in DictFamily /\ Fresh

CallToDict ==
    /\ op = "init"
    /\ \E d \in to_dict(afd) : record' = <<d>>
    /\ op' = "to_dict"
    /\ UNCHANGED <<afd, initial_combo, lastValid, usedAfd, input, run, gen, valid,
                   restored>>

CallFromDict ==
    /\ op = "to_dict"
    /\ restored' = <<from_dict(record[1])>>
    /\ op' = "from_dict"
    /\ UNCHANGED <<afd, initial_combo, lastValid, usedAfd, input, run, gen, valid,
                   record>>

\* from_dict on the record without one of its keys
CallFromDictWithout(key) ==
    /\ op = "to_dict"
    /\ record' = <<[k \in Keys \ {key} |-> record[1][k]]>>
    /\ restored' = <<from_dict([k \in Keys \ {key} |-> record[1][k]])>>
    /\ op' = "from_dict"
    /\ UNCHANGED <<afd, initial_combo, lastValid, usedAfd, input, run, gen, valid>>

NextDict == CallToDict \/ CallFromDict \/ \E key \in Keys : CallFromDictWithout(key)

SpecDict == InitDict /\ [][NextDict]_vars

\* C10: from_dict(to_dict(D)) has the states, the alphabet list, the initial
\* state, the accepting states and the transitions of D, whether D is valid
\* or not; a key missing from the record gives the empty collection or None.
C10_RoundTrip ==
    op = "from_dict" =>
        LET d == record[1]
            R == restored[1]
        IN /\ R.states = IF "states" \in DOMAIN d THEN afd.states ELSE {}
           /\ R.alphabet = IF "alphabet" \in DOMAIN d THEN afd.alphabet ELSE <<>>
           /\ R.initial_state =
                IF "initial_state" \in DOMAIN d THEN afd.initial_state ELSE None
           /\ R.accepting_states =
                IF "accepting_states" \in DOMAIN d THEN afd.accepting_states ELSE {}
           /\ R.transitions =
                IF "transitions" \in DOMAIN d THEN afd.transitions ELSE <<>>
           /\ DOMAIN d = Keys => R = afd

\* an invalid definition with a repeated symbol has made the round trip
\* through a record whose lists are not in the order of the model's sets
C10_Witness ==
    /\ op = "from_dict"
    /\ DOMAIN record[1] = Keys
    /\ validate(afd) # "ok"
    /\ afd.alphabet = <<Sym0, Sym0>>
    /\ record[1].states = <<"q1", "q0">>
    /\ afd.transitions # <<>>
    /\ restored = <<afd>>

---------------------------------------------------------------------------
(* the accepted strings of a definition, in the order of the enumeration *)

\* step_by_step returns (trace, True) on w
Accepts(D, w) ==
    LET r == step_by_step(D, w) IN r.pc = "returned" /\ r.accepted

AcceptedStrings(D, L) == {w \in SeqsUpTo(Chars, L) : Accepts(D, w)}

DistinctSymbols(D) ==
    \A i, j \in DOMAIN D.alphabet : i # j => D.alphabet[i] # D.alphabet[j]

\* the place of the one-character symbol c in the alphabet
Place(D, c) == CHOOSE i \in DOMAIN D.alphabet : D.alphabet[i] = <<c>>

\* u comes before v: shorter, or as long and smaller at the first difference
Precedes(D, u, v) ==
    \/ Len(u) < Len(v)
    \/ /\ Len(u) = Len(v)
       /\ \E k \in DOMAIN u :
            /\ \A j \in 1..(k - 1) : u[j] = v[j]
            /\ Place(D, u[k]) < Place(D, v[k])

RECURSIVE InOrder(_, _)
InOrder(D, S) ==
    IF S = {} THEN <<>>
    ELSE LET m == CHOOSE m \in S : \A x \in S : x = m \/ Precedes(D, m, x)
         IN <<m>> \o InOrder(D, S \ {m})

\* C11: for a valid definition with distinct symbols the call returns the
\* first min(n, K) of the K accepted strings of length at most max_len, taken
\* by length and, at equal length, in the order of the alphabet; the
\* "at least one 1" example with n = 3 and max_len = 3 gives "1", "01", "10".
C11_FirstAcceptedInOrder ==
    (gen.pc = "returned" /\ validate(afd) = "ok" /\ DistinctSymbols(afd)) =>
        LET all == InOrder(afd, AcceptedStrings(afd, gen.max_len))
            m == IF gen.n < Len(all) THEN gen.n ELSE Len(all)
        IN /\ gen.results = SubSeq(all, 1, m)
           /\ (afd = ExampleAFD("atleastone1") /\ gen.n = 3 /\ gen.max_len = 3) =>
                 gen.results = <<<<"1">>, <<"0", "1">>, <<"1", "0">>>>

---------------------------------------------------------------------------
(* the search under fair scheduling: a call that can iterate does.  The    *)
(* family has alphabets with the empty string as a symbol, on which a      *)
(* transition leaves the string as it is.                                  *)

SymE == <<>>
LiveAlphabets ==
    {<<>>, <<Sym0>>, <<Sym0, Sym0>>, <<SymE>>, <<SymE, Sym0>>, <<Sym0, SymE>>}
LiveRows == Q \X {Sym0, SymE} \X Q

LiveFamily ==
    {AFD(<<"q0", "q1">>, al, ini, acc, tr) :
        al \in LiveAlphabets, ini \in {None, "q0"}, acc \in StateLists,
        tr \in Tables(LiveRows, MaxRows)}

InitGenFair ==
    /\ \/ /\ afd \in LiveFamily
          /\ \E n \in 0..MaxN, max_len \in 0..MaxLen : gen = GenStart(afd, n, max_len)
       \/ /\ afd \in {ExampleAFD(name) : name \in ExampleNames}
          /\ \E n \in 0..(MaxN + 1), max_len \in 0..(MaxLen + 1) :
                gen = GenStart(afd, n, max_len)
    /\ initial_combo = [items |-> <<>>, current |-> ""]
    /\ lastValid = EmptyAFD
    /\ op = "init"
    /\ usedAfd = <<>>
    /\ input = <<>>
    /\ run = RunIdle
    /\ valid = "none"
    /\ record = <<>>
    /\ restored = <<>>

SpecGenFair == InitGenFair /\ [][Iterate]_vars /\ WF_vars(Iterate)

\* C12: the call returns: at some point the queue is empty or n results are
\* collected, and the frame is the returned one, holding the results so far.
C12_Terminates ==
    <>(gen.pc = "returned" /\ (gen.queue = <<>> \/ Len(gen.results) >= gen.n))

\* the call has returned fewer than n results, with the queue empty, after it
\* left unexpanded a configuration of length max_len that has a transition
C12_Witness ==
    /\ gen.pc = "returned"
    /\ gen.queue = <<>>
    /\ Len(gen.results) < gen.n
    /\ gen.max_len >= 1
    /\ \E c \in gen.visited : Len(c[2]) >= gen.max_len /\ HasKey(afd.transitions, c[1])

---------------------------------------------------------------------------
\* C13: for an alphabet of distinct symbols no configuration is dequeued
\* twice: the iteration never takes the visited branch, the configuration
\* about to be dequeued never has an accepting state with a string already
\* in results, and every string is held by at most one configuration, queued
\* or visited, and queued at most once.
C13_NoConfigurationTwice ==
    (gen.pc \in {"loop", "returned"} /\ DistinctSymbols(afd)) =>
        /\ gen.branch # "skip"
        /\ (gen.pc = "loop" /\ gen.queue # <<>> /\ Len(gen.results) < gen.n) =>
              /\ Head(gen.queue) \notin gen.visited
              /\ ~(Head(gen.queue)[1] \in afd.accepting_states
                   /\ Head(gen.queue)[2] \in Range(gen.results))
        /\ \A i, j \in DOMAIN gen.queue : i # j => gen.queue[i][2] # gen.queue[j][2]
        /\ \A i \in DOMAIN gen.queue : \A c \in gen.visited : gen.queue[i][2] # c[2]
        /\ \A c, d \in gen.visited : c[2] = d[2] => c = d

---------------------------------------------------------------------------
\* C14: the trace, at every point of the call, numbers its steps 1, 2, ...,
\* is no longer than the input, reads the i-th character in step i, starts
\* in initial_state, continues each step from the destination of the one
\* before, and gives as destination, unless None, the entry of the
\* transition table for the state and the symbol of the step.
C14_TraceWellFormed ==
    /\ Len(run.trace) <= Len(input)
    /\ \A i \in DOMAIN run.trace :
          /\ run.trace[i][1] = i
          /\ run.trace[i][3] = Ch(input, i)
          /\ run.trace[i][2] = IF i = 1 THEN afd.initial_state ELSE run.trace[i - 1][4]
          /\ run.trace[i][4] # None =>
                run.trace[i][4] = Delta(afd, run.trace[i][2], run.trace[i][3])

\* the call has returned a trace of three steps that changes state and ends
\* at a missing transition
C14_Witness ==
    /\ run.pc = "returned"
    /\ Len(run.trace) = 3
    /\ run.trace[1][4] # run.trace[1][2]
    /\ run.trace[2][4] # None
    /\ run.trace[3][4] = None

===========================================================================
